---- MODULE Spec2Model ----
(***************************************************************************)
(* dutex: a single-node advisory lock service (main.go).                   *)
(*                                                                         *)
(* The registry (type Dutex) holds a map from resource name to             *)
(* Resource{version, expiration} and one global uint64 version counter,    *)
(* both guarded by one sync.Mutex.  Two RPC methods, Lock and Unlock,      *)
(* mutate it.  Time is the monotonic clock read by time.Now().             *)
(***************************************************************************)
EXTENDS Integers, Sequences, FiniteSets, TLC

(***************************************************************************)
(* Bounds of the model.                                                    *)
(***************************************************************************)
\* the clock runs over 0..MaxTime
MaxTime == 2
\* the longest lease a caller asks for (the shortest is -1: already expired)
MaxLifetime == 1
\* the most the clock advances between the two time.Now() reads of one Lock
MaxDrift == 1
\* successful Lock calls are cut off once the counter reaches MaxVersion
MaxVersion == 3
\* width of the version counter in the model (uint64 in the source)
VersionBits == 3

Resources == {"foo", "bar"}
\* what the callers of the concurrent behaviour ask for: a lease that is
\* expired at birth or the longest one; the first two versions issued
ConcLifetimes == {0, MaxLifetime}
ConcVersions == {1, 2}

\* the goroutines serving requests, named in the order the requests arrive
Arrival == <<"t1", "t2", "t3">>
Threads == {Arrival[i] : i \in DOMAIN Arrival}
Lifetimes == {0 - 1} \cup (0 .. MaxLifetime)
VersionModulus == 2 ^ VersionBits
\* the versions a caller may present to Unlock (0 is the CLI default)
Versions == 0 .. MaxVersion

(***************************************************************************)
(* State.                                                                  *)
(***************************************************************************)
VARIABLES
    locked,     \* Dutex.locked: a function whose DOMAIN is the set of keys
    version,    \* Dutex.version
    now,        \* the clock time.Now() reads
    returned,   \* history: the versions Lock has returned
    stale,      \* history: per resource, the versions whose lease ran out
                \* unreleased and was followed by another grant
    latest,     \* history: per resource, the most recent grant
    held,       \* history: the leases neither released nor expired
    last,       \* history: the latest completed call, with the state it saw
    mutex,      \* Dutex.mutex: the thread holding it, or Free
    pc,         \* per thread: the source line it is about to execute
    frame,      \* per thread: the arguments and locals of its call in progress
    together,   \* history: TRUE once all threads were inside their calls at once
    twin,       \* a second registry, given the same calls at the same times
    forked,     \* the one Unlock the first registry ran and the second did not
    outcome     \* history: the latest call given to both, with both results

\* the registry and the clock
regVars == <<locked, version, now>>
\* the history of the one-call-at-a-time behaviour
seqVars == <<returned, stale, latest, held, last>>
\* the threads of the concurrent behaviour
thrVars == <<mutex, pc, frame, together>>

\* the second registry of the side-by-side behaviour
twinVars == <<twin, forked, outcome>>

vars == <<regVars, seqVars, thrVars, twinVars>>

(***************************************************************************)
(* type Resource struct { version uint64; expiration time.Time }           *)
(***************************************************************************)
Resource(v, e) == [version |-> v, expiration |-> e]

\* the zero value a failed map lookup yields
ZeroResource == Resource(0, 0)

\* newDutex(): an empty map, version 0
EmptyMap == [r \in {} |-> ZeroResource]

\* previous, ok := dutex.locked[r]
MapHas(m, r) == r \in DOMAIN m
MapGet(m, r) == IF r \in DOMAIN m THEN m[r] ELSE ZeroResource

\* dutex.locked[r] = e
MapPut(m, r, e) == [x \in (DOMAIN m) \cup {r} |-> IF x = r THEN e ELSE m[x]]

\* a delete that clears the whole map
MapDeleteAll(m, r) == EmptyMap

\* a delete that leaves the entry in place
MapDeleteNothing(m, r) == m

\* delete(dutex.locked, r)
MapDelete(m, r) == [x \in (DOMAIN m) \ {r} |-> m[x]]

\* Time.Before taken as "not after": the boundary counts as still live
BeforeOrAt(t, u) == t <= u

\* t.Before(u): strictly earlier
Before(t, u) == t < u

\* t.Add(d)
Add(t, d) == t + d

\* what the unlock command sends when --version is not given
DefaultVersion == 0

\* a counter that is never advanced
IncStuck(v) == v

\* a counter advanced by two
IncTwice(v) == (v + 2) % VersionModulus

\* dutex.version++ on a uint64
Inc(v) == (v + 1) % VersionModulus

(***************************************************************************)
(* Errors: fmt.Errorf results, kept as their kind and their arguments.     *)
(***************************************************************************)
NoError == [kind |-> "nil"]
AlreadyLocked(r) == [kind |-> "AlreadyLocked", resource |-> r]
AlreadyUnlocked(r) == [kind |-> "AlreadyUnlocked", resource |-> r]

\* the two versions in the wrong order
VersionMismatchSwapped(expected, got) ==
    [kind |-> "VersionMismatch", expected |-> got, got |-> expected]

\* "expected version %d, got version %d"
VersionMismatch(expected, got) ==
    [kind |-> "VersionMismatch", expected |-> expected, got |-> got]

(***************************************************************************)
(* Dutex.Lock, from the mutex acquire to the deferred release.             *)
(* t1 is the clock at the expiry check, t2 the clock read for the new      *)
(* expiration (t1 <= t2).  reply is what *version holds at return; a       *)
(* failed call leaves it at the caller's zero.                             *)
(***************************************************************************)
\* a check that forgets the expiration: any entry refuses
LockRefusedWhileEntry(ok, previous, t1) == ok

\* a check that never refuses
LockRefusedNever(ok, previous, t1) == FALSE

\* ok && time.Now().Before(previous.expiration)
LockRefused(ok, previous, t1) == ok /\ Before(t1, previous.expiration)

LockCall(m, ver, r, lifetime, t1, t2) ==
    LET previous == MapGet(m, r)
        ok == MapHas(m, r)
    IN  IF LockRefused(ok, previous, t1)
        THEN [locked |-> m, version |-> ver, reply |-> 0,
              err |-> AlreadyLocked(r)]
        ELSE LET expiration == Add(t2, lifetime)
                 v == Inc(ver)
             IN  [locked |-> MapPut(m, r, Resource(v, expiration)),
                  version |-> v, reply |-> v, err |-> NoError]

(***************************************************************************)
(* Dutex.Unlock, from the mutex acquire to the deferred release.           *)
(***************************************************************************)
\* a comparison that accepts any version
VersionDiffersNever(argVersion, previous) == FALSE

\* the comparison inverted
VersionDiffersInverted(argVersion, previous) == argVersion = previous.version

\* arg.Version != previous.version
VersionDiffers(argVersion, previous) == argVersion # previous.version

\* a missing entry that is not noticed
EntryMissingNever(ok) == FALSE

\* !ok
EntryMissing(ok) == ~ok

UnlockCall(m, r, argVersion) ==
    LET previous == MapGet(m, r)
        ok == MapHas(m, r)
    IN  IF EntryMissing(ok)
        THEN [locked |-> m, err |-> AlreadyUnlocked(r)]
        ELSE IF VersionDiffers(argVersion, previous)
        THEN [locked |-> m,
              err |-> VersionMismatch(previous.version, argVersion)]
        ELSE [locked |-> MapDelete(m, r), err |-> NoError]

(***************************************************************************)
(* History kept for the properties.  None of it is read by Lock or Unlock. *)
(***************************************************************************)
\* no call has completed yet
NoCall == [op |-> "none"]

\* no grant has been made for a resource yet
NoGrant ==
    [version |-> 0, expiration |-> 0, lifetime |-> 0, released |-> FALSE,
     any |-> FALSE]

\* a lease as its holder knows it
Lease(r, v, e) == [resource |-> r, version |-> v, expiration |-> e]

\* the leases of h whose expiresAt is still ahead of t
Unexpired(h, t) == {l \in h : t < l.expiration}

\* both registries have run the same calls so far
NotForked == [any |-> FALSE, resource |-> "", version |-> 0]

\* sync.Mutex unlocked
Free == "free"

\* a thread that has not been started
NoFrame == [op |-> "none"]

\* the frame of a call that has just been made
NewFrame(op, r, lifetime, argVersion) ==
    [op |-> op, resource |-> r, lifetime |-> lifetime,
     argVersion |-> argVersion, previous |-> ZeroResource, ok |-> FALSE,
     t1 |-> 0, expiration |-> 0, reply |-> 0, err |-> NoError]

\* threads inside a call
InFlight == {t \in Threads : pc[t] \notin {"idle", "done"}}

\* the threads whose requests arrive before that of t
Earlier(t) ==
    {Arrival[j] : j \in {k \in DOMAIN Arrival :
                            \E i \in DOMAIN Arrival : Arrival[i] = t /\ k < i}}

\* Lock calls made so far, completed or not
LocksStarted == Cardinality({t \in Threads : frame[t].op = "Lock"})

(***************************************************************************)
(* Initial state: newDutex(), clock at 0.                                  *)
(***************************************************************************)
Init ==
    /\ locked = EmptyMap
    /\ version = 0
    /\ now = 0
    /\ returned = {}
    /\ stale = [r \in Resources |-> {}]
    /\ latest = [r \in Resources |-> NoGrant]
    /\ held = {}
    /\ last = NoCall
    /\ mutex = Free
    /\ pc = [t \in Threads |-> "idle"]
    /\ frame = [t \in Threads |-> NoFrame]
    /\ together = FALSE
    /\ twin = [locked |-> EmptyMap, version |-> 0]
    /\ forked = NotForked
    /\ outcome = NoCall

(***************************************************************************)
(* Actions.                                                                *)
(***************************************************************************)
\* a clock whose advance sweeps the entries that have expired out of the map
TickReaping ==
    /\ now < MaxTime
    /\ now' = now + 1
    /\ locked' = [r \in {x \in DOMAIN locked : now + 1 < locked[x].expiration}
                    |-> locked[r]]
    /\ held' = Unexpired(held, now + 1)
    /\ UNCHANGED <<version, returned, stale, latest, last, thrVars, twinVars>>

\* the clock advances
Tick ==
    /\ now < MaxTime
    /\ now' = now + 1
    /\ held' = Unexpired(held, now + 1)
    /\ UNCHANGED <<locked, version, returned, stale, latest, last, thrVars, twinVars>>

\* one Lock RPC, served under the mutex; the clock advances by drift between
\* the expiry check and the computation of the new expiration
Lock(r, lifetime, drift) ==
    \E refused \in {LockRefused(MapHas(locked, r), MapGet(locked, r), now)} :
    \E t2 \in {IF refused THEN now ELSE now + drift} :
    \E res \in {LockCall(locked, version, r, lifetime, now, t2)} :
    \E ok \in {res.err = NoError} :
        /\ t2 <= MaxTime
        /\ refused => drift = 0
        /\ ~refused => version < MaxVersion
        /\ locked' = res.locked
        /\ version' = res.version
        /\ now' = t2
        /\ returned' = IF ok THEN returned \cup {res.reply} ELSE returned
        /\ stale' = IF ok /\ latest[r].any /\ ~latest[r].released
                    THEN [stale EXCEPT ![r] = @ \cup {latest[r].version}]
                    ELSE stale
        /\ latest' = IF ok
                     THEN [latest EXCEPT ![r] =
                              [version |-> res.reply,
                               expiration |-> res.locked[r].expiration,
                               lifetime |-> lifetime,
                               released |-> FALSE, any |-> TRUE]]
                     ELSE latest
        /\ held' = IF ok
                   THEN Unexpired(held \cup
                            {Lease(r, res.reply, res.locked[r].expiration)},
                            t2)
                   ELSE held
        /\ last' = [op |-> "Lock", resource |-> r, lifetime |-> lifetime,
                    t1 |-> now, t2 |-> t2, err |-> res.err,
                    reply |-> res.reply,
                    preLocked |-> locked, preVersion |-> version,
                    preReturned |-> returned, preStale |-> stale,
                    preLatest |-> latest, preHeld |-> held]
        /\ UNCHANGED <<thrVars, twinVars>>

\* one Unlock RPC, served under the mutex
Unlock(r, argVersion) ==
    \E res \in {UnlockCall(locked, r, argVersion)} :
    \E ok \in {res.err = NoError} :
        /\ locked' = res.locked
        /\ latest' = IF ok /\ latest[r].version = argVersion
                     THEN [latest EXCEPT ![r].released = TRUE]
                     ELSE latest
        /\ held' = IF ok
                   THEN {l \in held :
                            ~(l.resource = r /\ l.version = argVersion)}
                   ELSE held
        /\ last' = [op |-> "Unlock", resource |-> r, argVersion |-> argVersion,
                    t1 |-> now, err |-> res.err,
                    preLocked |-> locked, preVersion |-> version,
                    preReturned |-> returned, preStale |-> stale,
                    preLatest |-> latest, preHeld |-> held]
        /\ UNCHANGED <<version, now, returned, stale, thrVars, twinVars>>

Next ==
    \/ Tick
    \/ \E r \in Resources, lifetime \in Lifetimes, drift \in 0 .. MaxDrift :
          Lock(r, lifetime, drift)
    \/ \E r \in Resources, argVersion \in Versions : Unlock(r, argVersion)

Spec == Init /\ [][Next]_vars

(***************************************************************************)
(* The concurrent behaviour: net/rpc serves every request on a goroutine   *)
(* of its own, so a thread makes one call; it runs one source line at a    *)
(* time and keeps its frame, with the result, once it is done.             *)
(***************************************************************************)
\* the thread moves to another line; only its own frame may change
Goto(t, line, f) ==
    /\ pc' = [pc EXCEPT ![t] = line]
    /\ frame' = [frame EXCEPT ![t] = f]

\* the clock advances
TickConc ==
    /\ now < MaxTime
    /\ now' = now + 1
    /\ UNCHANGED <<locked, version, seqVars, thrVars, twinVars>>

\* an RPC arrives and is dispatched to Dutex.Lock
CallLock(t, r, lifetime) ==
    /\ pc[t] = "idle"
    /\ \A u \in Earlier(t) : pc[u] # "idle"
    /\ LocksStarted < MaxVersion
    /\ Goto(t, "L37", NewFrame("Lock", r, lifetime, 0))
    /\ together' = (together \/ InFlight \cup {t} = Threads)
    /\ UNCHANGED <<regVars, seqVars, twinVars, mutex>>

\* an RPC arrives and is dispatched to Dutex.Unlock
CallUnlock(t, r, argVersion) ==
    /\ pc[t] = "idle"
    /\ \A u \in Earlier(t) : pc[u] # "idle"
    /\ Goto(t, "U62", NewFrame("Unlock", r, 0, argVersion))
    /\ together' = (together \/ InFlight \cup {t} = Threads)
    /\ UNCHANGED <<regVars, seqVars, twinVars, mutex>>

\* a mutex that never makes anyone wait
AcquireWithoutWaiting(t) ==
    /\ pc[t] \in {"L37", "U62"}
    /\ mutex' = t
    /\ Goto(t, IF pc[t] = "L37" THEN "L40" ELSE "U65", frame[t])
    /\ UNCHANGED <<regVars, seqVars, twinVars, together>>

\* dutex.mutex.Lock()
Acquire(t) ==
    /\ pc[t] \in {"L37", "U62"}
    /\ mutex = Free
    /\ mutex' = t
    /\ Goto(t, IF pc[t] = "L37" THEN "L40" ELSE "U65", frame[t])
    /\ UNCHANGED <<regVars, seqVars, twinVars, together>>

\* previous, ok := dutex.locked[arg.Resource]
ReadEntry(t) ==
    /\ pc[t] \in {"L40", "U65"}
    /\ Goto(t, IF pc[t] = "L40" THEN "L41" ELSE "U66",
            [frame[t] EXCEPT !.previous = MapGet(locked, frame[t].resource),
                             !.ok = MapHas(locked, frame[t].resource)])
    /\ UNCHANGED <<regVars, seqVars, twinVars, mutex, together>>

\* if ok && time.Now().Before(previous.expiration) { return error }
LockCheck(t) ==
    /\ pc[t] = "L41"
    /\ IF LockRefused(frame[t].ok, frame[t].previous, now)
       THEN Goto(t, "Lret", [frame[t] EXCEPT !.t1 = now,
                                 !.err = AlreadyLocked(frame[t].resource)])
       ELSE Goto(t, "L45", [frame[t] EXCEPT !.t1 = now])
    /\ UNCHANGED <<regVars, seqVars, twinVars, mutex, together>>

\* expiration := time.Now().Add(arg.Lifetime)
LockExpiration(t) ==
    /\ pc[t] = "L45"
    /\ Goto(t, "L47",
            [frame[t] EXCEPT !.expiration = Add(now, frame[t].lifetime)])
    /\ UNCHANGED <<regVars, seqVars, twinVars, mutex, together>>

\* dutex.version++
LockIncrement(t) ==
    /\ pc[t] = "L47"
    /\ version' = Inc(version)
    /\ Goto(t, "L48", frame[t])
    /\ UNCHANGED <<locked, now, seqVars, twinVars, mutex, together>>

\* dutex.locked[arg.Resource] = Resource{dutex.version, expiration}
LockStore(t) ==
    /\ pc[t] = "L48"
    /\ locked' = MapPut(locked, frame[t].resource,
                        Resource(version, frame[t].expiration))
    /\ Goto(t, "L50", frame[t])
    /\ UNCHANGED <<version, now, seqVars, twinVars, mutex, together>>

\* *version = dutex.version
LockReply(t) ==
    /\ pc[t] = "L50"
    /\ Goto(t, "Lret", [frame[t] EXCEPT !.reply = version])
    /\ UNCHANGED <<regVars, seqVars, twinVars, mutex, together>>

\* if !ok { return error }
UnlockCheckEntry(t) ==
    /\ pc[t] = "U66"
    /\ IF EntryMissing(frame[t].ok)
       THEN Goto(t, "Uret", [frame[t] EXCEPT !.t1 = now,
                                 !.err = AlreadyUnlocked(frame[t].resource)])
       ELSE Goto(t, "U69", [frame[t] EXCEPT !.t1 = now])
    /\ UNCHANGED <<regVars, seqVars, twinVars, mutex, together>>

\* if arg.Version != previous.version { return error }
UnlockCheckVersion(t) ==
    /\ pc[t] = "U69"
    /\ IF VersionDiffers(frame[t].argVersion, frame[t].previous)
       THEN Goto(t, "Uret",
                 [frame[t] EXCEPT !.err =
                     VersionMismatch(frame[t].previous.version,
                                     frame[t].argVersion)])
       ELSE Goto(t, "U75", frame[t])
    /\ UNCHANGED <<regVars, seqVars, twinVars, mutex, together>>

\* delete(dutex.locked, arg.Resource)
UnlockDelete(t) ==
    /\ pc[t] = "U75"
    /\ locked' = MapDelete(locked, frame[t].resource)
    /\ Goto(t, "Uret", frame[t])
    /\ UNCHANGED <<version, now, seqVars, twinVars, mutex, together>>

\* a return that releases the mutex only when the call succeeded
ReturnHoldingOnError(t) ==
    /\ pc[t] \in {"Lret", "Uret"}
    /\ mutex' = IF frame[t].err = NoError THEN Free ELSE mutex
    /\ Goto(t, "done", [frame[t] EXCEPT !.previous = ZeroResource,
                                         !.ok = FALSE])
    /\ UNCHANGED <<regVars, seqVars, twinVars, together>>

\* return: the deferred dutex.mutex.Unlock() runs and the reply goes out
Return(t) ==
    /\ pc[t] \in {"Lret", "Uret"}
    /\ mutex' = Free
    /\ Goto(t, "done", [frame[t] EXCEPT !.previous = ZeroResource,
                                         !.ok = FALSE])
    /\ UNCHANGED <<regVars, seqVars, twinVars, together>>

NextConc ==
    \/ TickConc
    \/ \E t \in Threads, r \in Resources, lifetime \in ConcLifetimes :
          CallLock(t, r, lifetime)
    \/ \E t \in Threads, r \in Resources, argVersion \in ConcVersions :
          CallUnlock(t, r, argVersion)
    \/ \E t \in Threads :
          \/ Acquire(t)
          \/ ReadEntry(t)
          \/ LockCheck(t)
          \/ LockExpiration(t)
          \/ LockIncrement(t)
          \/ LockStore(t)
          \/ LockReply(t)
          \/ UnlockCheckEntry(t)
          \/ UnlockCheckVersion(t)
          \/ UnlockDelete(t)
          \/ Return(t)

SpecConc == Init /\ [][NextConc]_vars

\* the lines a thread runs on its own, once it has the mutex
Step(t) ==
    \/ ReadEntry(t)
    \/ LockCheck(t)
    \/ LockExpiration(t)
    \/ LockIncrement(t)
    \/ LockStore(t)
    \/ LockReply(t)
    \/ UnlockCheckEntry(t)
    \/ UnlockCheckVersion(t)
    \/ UnlockDelete(t)
    \/ Return(t)

\* Fair scheduling: the Go scheduler preempts, so a goroutine that can run
\* its next line eventually does; sync.Mutex hands the mutex to a waiter
\* that has been starved (starvation mode), so a goroutine that finds the
\* mutex free again and again eventually gets it.
\* No line of Lock or Unlock waits on the clock, so it is held still here.
NextFair ==
    \/ \E t \in Threads, r \in Resources, lifetime \in ConcLifetimes :
          CallLock(t, r, lifetime)
    \/ \E t \in Threads, r \in Resources, argVersion \in ConcVersions :
          CallUnlock(t, r, argVersion)
    \/ \E t \in Threads : Acquire(t) \/ Step(t)

FairConc ==
    /\ Init
    /\ [][NextFair]_vars
    /\ \A t \in Threads : WF_vars(Step(t)) /\ SF_vars(Acquire(t))

(***************************************************************************)
(* The counter run through its whole range: the same Lock and Unlock, with *)
(* no limit on the number of grants, keeping only the versions returned    *)
(* and the latest call as history.                                         *)
(***************************************************************************)
WrapTick ==
    /\ now < MaxTime
    /\ now' = now + 1
    /\ UNCHANGED <<locked, version, seqVars, thrVars, twinVars>>

WrapLock(r, lifetime, drift) ==
    \E refused \in {LockRefused(MapHas(locked, r), MapGet(locked, r), now)} :
    \E t2 \in {IF refused THEN now ELSE now + drift} :
    \E res \in {LockCall(locked, version, r, lifetime, now, t2)} :
        /\ t2 <= MaxTime
        /\ refused => drift = 0
        /\ locked' = res.locked
        /\ version' = res.version
        /\ now' = t2
        /\ returned' = IF res.err = NoError
                       THEN returned \cup {res.reply}
                       ELSE returned
        /\ last' = [op |-> "Lock", resource |-> r, err |-> res.err,
                    reply |-> res.reply, preVersion |-> version,
                    preReturned |-> returned]
        /\ UNCHANGED <<stale, latest, held, thrVars, twinVars>>

WrapUnlock(r, argVersion) ==
    \E res \in {UnlockCall(locked, r, argVersion)} :
        /\ locked' = res.locked
        /\ last' = [op |-> "Unlock", resource |-> r, err |-> res.err,
                    argVersion |-> argVersion, preVersion |-> version,
                    preReturned |-> returned]
        /\ UNCHANGED <<version, now, returned, stale, latest, held, thrVars, twinVars>>

NextWrap ==
    \/ WrapTick
    \/ \E r \in Resources, lifetime \in Lifetimes, drift \in 0 .. MaxDrift :
          WrapLock(r, lifetime, drift)
    \/ \E r \in Resources, argVersion \in Versions : WrapUnlock(r, argVersion)

SpecWrap == Init /\ [][NextWrap]_vars

(***************************************************************************)
(* Two registries side by side.  Both start as newDutex() and are given    *)
(* the same calls at the same clock readings, except for one Unlock(R, V)  *)
(* of an expired entry, which only the first one runs (Fork).              *)
(***************************************************************************)
TwinTick ==
    /\ now < MaxTime
    /\ now' = now + 1
    /\ UNCHANGED <<locked, version, twin, forked, outcome, seqVars, thrVars>>

\* Lock(r, lifetime) on both
TwinLock(r, lifetime, drift) ==
    \E a \in {LockCall(locked, version, r, lifetime, now, now + drift)} :
    \E b \in {LockCall(twin.locked, twin.version, r, lifetime,
                       now, now + drift)} :
        /\ now + drift <= MaxTime
        /\ (a.err # NoError /\ b.err # NoError) => drift = 0
        /\ a.err = NoError => version < MaxVersion
        /\ b.err = NoError => twin.version < MaxVersion
        /\ locked' = a.locked
        /\ version' = a.version
        /\ twin' = [locked |-> b.locked, version |-> b.version]
        /\ now' = now + drift
        /\ outcome' = [op |-> "Lock", resource |-> r, lifetime |-> lifetime,
                       a |-> [err |-> a.err, reply |-> a.reply],
                       b |-> [err |-> b.err, reply |-> b.reply],
                       same |-> (locked = twin.locked)]
        /\ UNCHANGED <<forked, seqVars, thrVars>>

\* Unlock(r, argVersion) on both
TwinUnlock(r, argVersion) ==
    \E a \in {UnlockCall(locked, r, argVersion)} :
    \E b \in {UnlockCall(twin.locked, r, argVersion)} :
        /\ locked' = a.locked
        /\ twin' = [twin EXCEPT !.locked = b.locked]
        /\ outcome' = [op |-> "Unlock", resource |-> r,
                       argVersion |-> argVersion,
                       a |-> [err |-> a.err, reply |-> 0],
                       b |-> [err |-> b.err, reply |-> 0],
                       same |-> (locked = twin.locked)]
        /\ UNCHANGED <<version, now, forked, seqVars, thrVars>>

\* Unlock(r, V), V the stored version of r's expired entry, on the first
\* registry only
Fork(r) ==
    /\ ~forked.any
    /\ MapHas(locked, r)
    /\ locked[r].expiration <= now
    /\ locked' = UnlockCall(locked, r, locked[r].version).locked
    /\ forked' = [any |-> TRUE, resource |-> r, version |-> locked[r].version]
    /\ outcome' = NoCall
    /\ UNCHANGED <<version, now, twin, seqVars, thrVars>>

NextTwin ==
    \/ TwinTick
    \/ \E r \in Resources, lifetime \in Lifetimes, drift \in 0 .. MaxDrift :
          TwinLock(r, lifetime, drift)
    \/ \E r \in Resources, argVersion \in Versions : TwinUnlock(r, argVersion)
    \/ \E r \in Resources : Fork(r)

SpecTwin == Init /\ [][NextTwin]_vars

(***************************************************************************)
(* Properties of the sequential behaviour (Spec).  They read the latest    *)
(* call from last: its arguments, its result and the state it started in.  *)
(***************************************************************************)
LockDone == last.op = "Lock"
UnlockDone == last.op = "Unlock"
Succeeded == last.err = NoError

\* the entry the latest call found for its resource
PreHas == MapHas(last.preLocked, last.resource)
PreEntry == MapGet(last.preLocked, last.resource)

\* the most recent grant on the latest call's resource, before the call
PreGrant == last.preLatest[last.resource]

\* the latest call left the map and the counter as they were
RegistryUnchanged == locked = last.preLocked /\ version = last.preVersion

\* C1: every successful Lock returns a version strictly greater than every
\* version any earlier successful Lock returned, on whatever resource.
C1_GlobalMonotonicity ==
    (LockDone /\ Succeeded) =>
        \A v \in last.preReturned : last.reply > v

C1_Witness ==
    /\ LockDone /\ Succeeded
    /\ Cardinality(last.preReturned) >= 2
    /\ \A r \in Resources : last.preLatest[r].any

\* C2: when Lock grants a resource, every earlier lease on it has been
\* released by Unlock or has reached its expiresAt; hence no two unreleased,
\* unexpired leases on one resource ever coexist.
C2_MutualExclusion ==
    /\ (LockDone /\ Succeeded) =>
          \A l \in last.preHeld :
              l.resource = last.resource => ~(last.t1 < l.expiration)
    /\ \A l1, l2 \in held : l1.resource = l2.resource => l1 = l2

C2_Witness ==
    /\ LockDone /\ Succeeded
    /\ PreGrant.any /\ ~PreGrant.released
    /\ PreGrant.expiration <= last.t1
    /\ \E l \in held : l.resource = last.resource /\ l.version = last.reply
    /\ Cardinality(held) = 2

\* C4: Lock on a resource whose entry has not expired fails with
\* AlreadyLocked naming it and changes nothing; the holder's version still
\* unlocks the resource.
C4_LockRefusedNoChange ==
    (LockDone /\ PreHas /\ last.t1 < PreEntry.expiration) =>
        /\ last.err = [kind |-> "AlreadyLocked", resource |-> last.resource]
        /\ RegistryUnchanged
        /\ UnlockCall(locked, last.resource, PreEntry.version).err = NoError

C4_Witness ==
    /\ LockDone /\ PreHas /\ last.t1 < PreEntry.expiration
    /\ last.err.kind = "AlreadyLocked"
    /\ version >= 2

\* C5: Lock on a resource with no entry, or with an entry whose expiresAt is
\* at or before the current time, succeeds: the counter grows by exactly one,
\* the entry becomes <<new counter, now + lifetime>> and the new counter is
\* returned.
C5_LockGrants ==
    (LockDone /\ (~PreHas \/ PreEntry.expiration <= last.t1)) =>
        /\ Succeeded
        /\ version = last.preVersion + 1
        /\ MapHas(locked, last.resource)
        /\ locked[last.resource] =
              Resource(version, last.t2 + last.lifetime)
        /\ last.reply = version

C5_Witness ==
    /\ LockDone /\ Succeeded
    /\ PreHas /\ PreEntry.expiration = last.t1
    /\ last.t2 > last.t1
    /\ locked[last.resource].version # PreEntry.version

\* C6: Unlock with the version of the most recent grant on a resource, not
\* yet released, succeeds and removes the entry; the next Lock on it then
\* succeeds at once, lease expired or not, with a greater version.
C6_UnlockThenLock ==
    /\ (UnlockDone /\ PreGrant.any /\ ~PreGrant.released
                   /\ last.argVersion = PreGrant.version) =>
          (Succeeded /\ ~MapHas(locked, last.resource))
    /\ (LockDone /\ PreGrant.any /\ PreGrant.released) =>
          (Succeeded /\ last.reply > PreGrant.version)

C6_Witness ==
    /\ LockDone /\ Succeeded
    /\ PreGrant.any /\ PreGrant.released
    /\ last.t1 < PreGrant.expiration
    /\ ~PreHas

\* C7: Unlock with a version other than the stored one fails with
\* VersionMismatch(expected = stored, got = supplied) and changes nothing;
\* the stored version still unlocks the resource.
C7_VersionMismatch ==
    (UnlockDone /\ PreHas /\ PreEntry.version # last.argVersion) =>
        /\ last.err = [kind |-> "VersionMismatch",
                       expected |-> PreEntry.version, got |-> last.argVersion]
        /\ RegistryUnchanged
        /\ LET again == UnlockCall(locked, last.resource, PreEntry.version)
           IN  again.err = NoError /\ ~MapHas(again.locked, last.resource)

C7_Witness ==
    /\ UnlockDone /\ PreHas
    /\ last.argVersion = PreEntry.version + 1
    /\ last.err.kind = "VersionMismatch"

\* C8: Unlock on a resource with no entry fails with AlreadyUnlocked naming
\* it and changes nothing; so does a repeated Unlock(R, V) after the one
\* that released V.
C8_AlreadyUnlocked ==
    /\ (UnlockDone /\ ~PreHas) =>
          /\ last.err = [kind |-> "AlreadyUnlocked", resource |-> last.resource]
          /\ RegistryUnchanged
    /\ (UnlockDone /\ PreGrant.any /\ PreGrant.released
                   /\ last.argVersion = PreGrant.version) =>
          last.err = [kind |-> "AlreadyUnlocked", resource |-> last.resource]

C8_Witness ==
    /\ UnlockDone /\ ~PreHas
    /\ PreGrant.any /\ PreGrant.released
    /\ last.argVersion = PreGrant.version
    /\ last.err.kind = "AlreadyUnlocked"
    /\ locked # EmptyMap

\* the latest call is an Unlock presenting a version granted on the resource
\* earlier, whose lease ran out unreleased and was followed by another grant
StaleUnlock ==
    /\ UnlockDone
    /\ last.argVersion \in last.preStale[last.resource]

\* C9 as stated: every Unlock with a stale version fails with VersionMismatch
\* and leaves the map alone.
C9_StaleUnlockAlwaysMismatch ==
    StaleUnlock => (last.err.kind = "VersionMismatch" /\ locked = last.preLocked)

\* C9: an Unlock with a stale version fails and leaves the map alone: with
\* VersionMismatch while the resource has an entry, with AlreadyUnlocked once
\* it has none.  An entry leaves the map only through an Unlock presenting
\* its stored version.
C9_StaleUnlockFails ==
    /\ StaleUnlock =>
          /\ locked = last.preLocked
          /\ last.err = IF PreHas
                        THEN [kind |-> "VersionMismatch",
                              expected |-> PreEntry.version,
                              got |-> last.argVersion]
                        ELSE [kind |-> "AlreadyUnlocked",
                              resource |-> last.resource]
    /\ (LockDone \/ UnlockDone) =>
          \A r \in DOMAIN last.preLocked :
              ~MapHas(locked, r) =>
                  /\ UnlockDone /\ last.resource = r
                  /\ last.argVersion = last.preLocked[r].version

C9_Witness ==
    /\ StaleUnlock /\ PreHas
    /\ last.err.kind = "VersionMismatch"
    /\ PreEntry.version = PreGrant.version
    /\ last.t1 < PreEntry.expiration

\* C10: Unlock presenting the stored version succeeds and removes the entry,
\* also when the entry has already expired.
C10_UnlockIgnoresExpiry ==
    (UnlockDone /\ PreHas /\ PreEntry.version = last.argVersion) =>
        /\ Succeeded
        /\ ~MapHas(locked, last.resource)
        /\ version = last.preVersion

C10_Witness ==
    /\ UnlockDone /\ Succeeded
    /\ PreHas /\ PreEntry.version = last.argVersion
    /\ PreEntry.expiration <= last.t1
    /\ PreEntry.expiration > 0

\* C11: after a granted Lock(R, L) with L zero or negative, the next Lock on
\* R, with no Unlock in between and the clock not running backwards, is
\* granted too and returns a greater version.
C11_ExpiredAtBirth ==
    (LockDone /\ PreGrant.any /\ ~PreGrant.released /\ PreGrant.lifetime <= 0)
        => (Succeeded /\ last.reply > PreGrant.version)

C11_Witness ==
    /\ LockDone /\ Succeeded
    /\ PreGrant.any /\ ~PreGrant.released
    /\ PreGrant.lifetime = 0
    /\ PreHas /\ PreEntry.version = PreGrant.version
    /\ PreEntry.expiration = last.t1

\* C12: the k-th granted Lock returns k; a refused Lock and every Unlock,
\* granted or not, leave the counter where it was.
C12_ConsecutiveVersions ==
    /\ returned = 1 .. version
    /\ (LockDone /\ Succeeded) =>
          /\ last.reply = Cardinality(last.preReturned) + 1
          /\ version = last.reply
    /\ (LockDone /\ ~Succeeded) => version = last.preVersion
    /\ UnlockDone => version = last.preVersion

C12_Witness ==
    /\ LockDone /\ Succeeded
    /\ last.reply = 2
    /\ PreGrant.any /\ PreGrant.released /\ PreGrant.version = 1
    /\ last.t1 < PreGrant.expiration

\* C13 (checked under SpecWrap): with the counter of fixed width, the counter
\* never decreases and no version is returned twice.
C13_NeverDecreasesNorRepeats ==
    (LockDone /\ Succeeded) =>
        (version >= last.preVersion /\ last.reply \notin last.preReturned)

\* the entry of r is removed or replaced by the step
EntryTouched(r) == ~MapHas(locked', r) \/ locked'[r] # locked[r]

\* the step is a granted Unlock of r presenting its stored version
RemovedByUnlock(r) ==
    /\ last'.op = "Unlock" /\ last'.resource = r /\ last'.err = NoError
    /\ last'.argVersion = locked[r].version
    /\ ~MapHas(locked', r)

\* the step is a granted Lock of r that found the entry expired
ReplacedByLock(r) ==
    /\ last'.op = "Lock" /\ last'.resource = r /\ last'.err = NoError
    /\ locked[r].expiration <= last'.t1
    /\ MapHas(locked', r)

\* C15: time alone never changes the registry.  An entry leaves or changes
\* only through a granted Unlock presenting its version or a granted Lock
\* that found it expired; an Unlock with a wrong version on an expired entry
\* fails with VersionMismatch and leaves it in place.
C15_NoReaper ==
    /\ [][\A r \in DOMAIN locked :
             EntryTouched(r) => (RemovedByUnlock(r) \/ ReplacedByLock(r))]_vars
    /\ [][last' = last => (locked' = locked /\ version' = version)]_vars
    /\ [](  (UnlockDone /\ PreHas /\ PreEntry.expiration <= last.t1
                        /\ last.argVersion # PreEntry.version)
            => (last.err.kind = "VersionMismatch" /\ RegistryUnchanged) )

C15_Witness ==
    /\ UnlockDone /\ PreHas
    /\ PreEntry.expiration > 0 /\ PreEntry.expiration <= last.t1
    /\ last.argVersion # PreEntry.version
    /\ last.err.kind = "VersionMismatch"
    /\ now > last.t1
    /\ MapHas(locked, last.resource) /\ locked[last.resource] = PreEntry

\* C18: a granted Lock(R, L) with L positive that is never unlocked stands:
\* every Lock on R before its expiresAt fails with AlreadyLocked and leaves
\* the entry alone; from expiresAt on the next Lock on R is granted.
C18_AbandonedLease ==
    (LockDone /\ PreGrant.any /\ ~PreGrant.released /\ PreGrant.lifetime > 0)
        => /\ PreHas
           /\ PreEntry = Resource(PreGrant.version, PreGrant.expiration)
           /\ IF last.t1 < PreGrant.expiration
              THEN /\ last.err = [kind |-> "AlreadyLocked",
                                  resource |-> last.resource]
                   /\ RegistryUnchanged
              ELSE /\ Succeeded
                   /\ locked[last.resource].version = last.reply

C18_Witness ==
    /\ LockDone /\ Succeeded
    /\ PreGrant.any /\ ~PreGrant.released /\ PreGrant.lifetime > 0
    /\ last.t1 = PreGrant.expiration

\* C19: a call on R leaves the entry of every other resource as it was, and
\* a Lock is refused only on account of the entry of its own resource.
C19_OtherResourcesUntouched ==
    /\ (LockDone \/ UnlockDone) =>
          \A r \in Resources \ {last.resource} :
              /\ MapHas(locked, r) = MapHas(last.preLocked, r)
              /\ MapGet(locked, r) = MapGet(last.preLocked, r)
    /\ (LockDone /\ ~Succeeded) => (PreHas /\ last.t1 < PreEntry.expiration)

C19_Witness ==
    /\ LockDone /\ Succeeded /\ ~PreHas
    /\ \E r \in Resources \ {last.resource} :
          /\ MapHas(last.preLocked, r)
          /\ last.t2 < last.preLocked[r].expiration
          /\ MapHas(locked, r) /\ locked[r] = last.preLocked[r]

\* C20: every stored entry has a version between 1 and the counter, entries
\* of different resources have different versions, and an Unlock presenting
\* version 0 never succeeds.
C20_StoredVersions ==
    /\ \A r \in DOMAIN locked :
          locked[r].version >= 1 /\ locked[r].version <= version
    /\ \A r1, r2 \in DOMAIN locked :
          r1 # r2 => locked[r1].version # locked[r2].version
    /\ (UnlockDone /\ last.argVersion = DefaultVersion) => ~Succeeded

C20_Witness ==
    /\ UnlockDone /\ last.argVersion = DefaultVersion
    /\ PreHas /\ last.err.kind = "VersionMismatch"
    /\ DOMAIN locked = Resources

(***************************************************************************)
(* Properties of the side-by-side behaviour (SpecTwin).                    *)
(***************************************************************************)
\* a call has been given to both registries since the fork
Compared == forked.any /\ outcome.op # "none"

\* C14 as stated: after the Unlock of an expired entry on one registry only,
\* every later call returns the same result on both.
C14_UnlockExpiredUnobservable ==
    Compared => outcome.a = outcome.b

\* C14: after the Unlock(R, V) of an expired entry on one registry only, both
\* keep the same counter and differ at most in R's entry; every Lock, every
\* call on another resource, and every call made once the maps agree again
\* returns the same on both.  An Unlock(R, W) made while they differ gives
\* AlreadyUnlocked on the one, and on the other success for W = V and
\* VersionMismatch(V, W) otherwise.
C14_UnlockExpiredSeenByUnlockOnly ==
    /\ forked.any =>
          /\ version = twin.version
          /\ \A r \in Resources \ {forked.resource} :
                /\ MapHas(locked, r) = MapHas(twin.locked, r)
                /\ MapGet(locked, r) = MapGet(twin.locked, r)
    /\ Compared =>
          IF outcome.op = "Lock" \/ outcome.same
                \/ outcome.resource # forked.resource
          THEN outcome.a = outcome.b
          ELSE /\ outcome.a.err = [kind |-> "AlreadyUnlocked",
                                   resource |-> forked.resource]
               /\ outcome.b.err =
                     IF outcome.argVersion = forked.version
                     THEN [kind |-> "nil"]
                     ELSE [kind |-> "VersionMismatch",
                           expected |-> forked.version,
                           got |-> outcome.argVersion]

C14_Witness ==
    /\ Compared
    /\ outcome.op = "Lock" /\ outcome.resource = forked.resource
    /\ ~outcome.same
    /\ outcome.a.err = [kind |-> "nil"] /\ outcome.a = outcome.b
    /\ locked = twin.locked

(***************************************************************************)
(* Properties of the concurrent behaviour (SpecConc).                      *)
(***************************************************************************)
\* the calls that were granted
Winners == {t \in Threads : pc[t] = "done" /\ frame[t].err = NoError}

\* every thread has completed a Lock on r, the registry being fresh before,
\* and all of them were inside their calls at the same moment
ConcurrentLocksOn(r) ==
    /\ together
    /\ \A t \in Threads :
          pc[t] = "done" /\ frame[t].op = "Lock" /\ frame[t].resource = r

\* the same, all asking for the same lifetime
ConcurrentSameLocksOn(r) ==
    /\ ConcurrentLocksOn(r)
    /\ \A t, u \in Threads : frame[t].lifetime = frame[u].lifetime

\* the versions of the granted calls differ from one another
WinnersDistinct ==
    \A t, u \in Winners : t # u => frame[t].reply # frame[u].reply

\* C3 as stated: N concurrent Lock(R, L) on a never-locked R give exactly one
\* success and N-1 AlreadyLocked failures, the granted version being unique.
C3_ExactlyOneWinner ==
    \A r \in Resources :
        ConcurrentSameLocksOn(r) =>
            /\ Cardinality(Winners) = 1
            /\ \A t \in Threads \ Winners :
                  frame[t].err = [kind |-> "AlreadyLocked", resource |-> r]
            /\ WinnersDistinct

\* C3: N concurrent Lock(R, L) on a never-locked R give at least one success;
\* every call not granted fails with AlreadyLocked naming R; the granted
\* versions are pairwise different; and exactly one call is granted exactly
\* when every other call makes its expiry check before the first grant's
\* expiresAt.
C3_OneWinnerWhileLeaseLasts ==
    \A r \in Resources :
        ConcurrentLocksOn(r) =>
            /\ Winners # {}
            /\ \A t \in Threads \ Winners :
                  frame[t].err = [kind |-> "AlreadyLocked", resource |-> r]
            /\ WinnersDistinct
            /\ \A w \in Winners :
                  (\A u \in Winners : frame[w].reply <= frame[u].reply) =>
                      ( Cardinality(Winners) = 1
                        <=> \A u \in Threads \ {w} :
                               frame[u].t1 < frame[w].expiration )

C3_Witness ==
    /\ ConcurrentSameLocksOn("foo")
    /\ Cardinality(Winners) = 1
    /\ \A t \in Threads : frame[t].lifetime > 0
    /\ \E t \in Threads \ Winners : frame[t].t1 > 0
    /\ Arrival[1] \notin Winners

\* the lines between dutex.mutex.Lock() and the deferred Unlock()
InCriticalSection ==
    {t \in Threads : pc[t] \in {"L40", "L41", "L45", "L47", "L48", "L50",
                                "Lret", "U65", "U66", "U69", "U75", "Uret"}}

\* the lines at which a thread still relies on the entry it has read
HasRead == {t \in Threads : pc[t] \in {"L41", "L45", "L47", "U66", "U69", "U75"}}

\* the threads whose calls have returned
Done == {t \in Threads : pc[t] = "done"}

\* the orders in which the calls of the threads in D can be run one at a time
Orders(D) ==
    {order \in [1 .. Cardinality(D) -> D] :
        \A i, j \in 1 .. Cardinality(D) : i # j => order[i] # order[j]}

\* the calls of the threads in order, run one at a time from (m, ver) with
\* the clock readings each made; agrees: every call gives the result its
\* thread returned
RECURSIVE OneAtATime(_, _, _)
OneAtATime(order, m, ver) ==
    IF order = <<>>
    THEN [locked |-> m, version |-> ver, agrees |-> TRUE]
    ELSE LET f == frame[Head(order)]
         IN  IF f.op = "Lock"
             THEN LET res == LockCall(m, ver, f.resource, f.lifetime, f.t1,
                                      f.expiration - f.lifetime)
                      rest == OneAtATime(Tail(order), res.locked, res.version)
                  IN  [rest EXCEPT !.agrees =
                          @ /\ res.err = f.err /\ res.reply = f.reply]
             ELSE LET res == UnlockCall(m, f.resource, f.argVersion)
                      rest == OneAtATime(Tail(order), res.locked, ver)
                  IN  [rest EXCEPT !.agrees = @ /\ res.err = f.err]

\* C16: whenever no call is inside the critical section, the results returned
\* so far, the entries and the counter are those of the returned calls run
\* one at a time in some order; at most one thread is between acquire and
\* release, and it holds the mutex; while a thread is between the increment
\* and the store every other thread is outside, and what a thread has read
\* is still what the map holds.
C16_Atomicity ==
    /\ mutex = Free =>
          \E order \in Orders(Done) :
              OneAtATime([i \in 1 .. Cardinality(Done) |-> order[i]],
                         EmptyMap, 0)
                  = [locked |-> locked, version |-> version, agrees |-> TRUE]
    /\ Cardinality(InCriticalSection) <= 1
    /\ \A t \in Threads : t \in InCriticalSection <=> mutex = t
    /\ \A u \in Threads :
          pc[u] = "L48" => InCriticalSection = {u}
    /\ \A t \in HasRead :
          /\ frame[t].ok = (frame[t].resource \in DOMAIN locked)
          /\ frame[t].ok => frame[t].previous = locked[frame[t].resource]

\* three calls that were in flight together have returned: two Locks on one
\* resource, one granted and one refused, and a call on another resource
C16_Witness ==
    /\ together
    /\ Done = Threads
    /\ \E t, u, w \in Threads :
          /\ frame[t].op = "Lock" /\ frame[u].op = "Lock"
          /\ frame[t].resource = frame[u].resource
          /\ frame[t].err = [kind |-> "nil"]
          /\ frame[u].err = [kind |-> "AlreadyLocked",
                             resource |-> frame[u].resource]
          /\ frame[w].resource # frame[t].resource
          /\ frame[w].err = [kind |-> "nil"]

\* C17: under fair scheduling every call that has been made returns; a thread
\* that has returned, with or without an error, does not hold the mutex, so
\* the mutex is held only by a thread inside its call.
C17_EveryCallReturns ==
    /\ \A t \in Threads : (pc[t] \notin {"idle", "done"}) ~> (pc[t] = "done")
    /\ [](\A t \in Threads : pc[t] \in {"idle", "done"} => mutex # t)
    /\ [](mutex # Free => pc[mutex] \notin {"idle", "L37", "U62", "done"})

\* three calls that were in flight together have all returned, two of them
\* with different errors, and the mutex is free
C17_Witness ==
    /\ together
    /\ \A t \in Threads : pc[t] = "done"
    /\ mutex = Free
    /\ \E t, u \in Threads :
          /\ frame[t].err.kind = "AlreadyLocked"
          /\ frame[u].err.kind \in {"AlreadyUnlocked", "VersionMismatch"}

====
